---- MODULE Spec2Model ----
(***************************************************************************)
(* paine: an HTTP load tester (src/src/main.rs).                           *)
(*                                                                         *)
(* Four kinds of thread take part in a run:                                *)
(*   main          validates the plan, spawns the two threads below, then  *)
(*                 redraws the report under the plan's Mutex until its     *)
(*                 progress ratio reaches 1.0, drops its Sender and joins  *)
(*   do_requests   the dispatcher: submits one job per loop iteration to   *)
(*                 a ThreadPool and sleeps 1/rate seconds after each       *)
(*   pool workers  run a job: one HTTP GET, classify it, send a Response   *)
(*   handle_results the aggregator: receives Responses until every Sender  *)
(*                 is dropped and folds each into the plan under the Mutex *)
(*                                                                         *)
(* Time advances in steps of one pacing interval (the dispatcher's         *)
(* sleep_ms): a step adds one to what each thread's                        *)
(* Instant::now().duration_since(started) returns and takes one from what  *)
(* is left of each sleep.  The return from a sleep and the clock reading   *)
(* that follows it are one step, and so are the receipt of a msg and the   *)
(* locking that follows it.                                                *)
(* Terminal I/O (raw mode, clear, draw, set_cursor) is taken to succeed.   *)
(***************************************************************************)
EXTENDS Integers, Sequences, FiniteSets, TLC

\* ------------------------------------------------------------------ bounds
MaxLoad == 2
MaxTimeout == 1
MaxMillis == 2
MaxSkew == 1
MaxPaceRate == 3

\* ------------------------------------------------------- program constants
MAX_THREADS == 50
NanosPerSec == 1000000000
RedrawNanos == 200000000

VARIABLES
    rate, duration, timeout_secs,  \* TestPlan's command-line fields
    target,                        \* the kind of server the url names
    mpc,                           \* main: position
    m_elapsed,                     \* main: Instant::now().duration_since(started)
    m_read,                        \* main: now.duration_since(started)
    m_timer,                       \* main: what is left of its sleep
    ratio,                         \* main: "full" when ratio >= 1.0
    tx,                            \* main's Sender is alive
    dpc,                           \* do_requests: position
    d_elapsed,                     \* do_requests: now().duration_since(started)
    d_timer,                       \* do_requests: what is left of its sleep
    tx2,                           \* the dispatcher's Sender is alive
    queued, running,               \* ThreadPool: jobs waiting / executing
    chan,                          \* the mpsc channel's buffered Responses
    apc, msg,                      \* handle_results: position, current msg
    lock,                          \* owner of the plan's Mutex
    plan,                          \* the statistics fields of TestPlan
    final_report,                  \* what the run's last draw_terminal rendered
    submitted, consumed,           \* jobs handed to the pool / msgs received
    send_failed                    \* a worker's send returned Err

cfgvars == <<rate, duration, timeout_secs, target>>
clockvars == <<m_elapsed, m_timer, d_elapsed, d_timer>>
mainvars == <<mpc, m_read, ratio, tx, final_report>>
dispvars == <<dpc, tx2>>
poolvars == <<queued, running>>
aggvars == <<apc, msg>>
vars == <<rate, duration, timeout_secs, target, mpc, m_elapsed, m_read,
          m_timer, ratio, tx, dpc, d_elapsed, d_timer, tx2, queued, running,
          chan, apc, msg, lock, plan, final_report, submitted, consumed,
          send_failed>>

\* ----------------------------------------------------------------- helpers
Min(a, b) == IF a < b THEN a ELSE b

RECURSIVE SumSeq(_)
SumSeq(s) == IF s = <<>> THEN 0 ELSE Head(s) + SumSeq(Tail(s))

RECURSIVE SumMap(_)
SumMap(f) ==
    IF DOMAIN f = {} THEN 0
    ELSE LET k == CHOOSE x \in DOMAIN f : TRUE
         IN f[k] + SumMap([x \in DOMAIN f \ {k} |-> f[x]])

SeqMin(s) == CHOOSE x \in {s[i] : i \in DOMAIN s} :
                 \A y \in {s[i] : i \in DOMAIN s} : x <= y
SeqMax(s) == CHOOSE x \in {s[i] : i \in DOMAIN s} :
                 \A y \in {s[i] : i \in DOMAIN s} : x >= y

\* ---------------------------------------------------------------- TestPlan
\* The fields main leaves to #[structopt(skip)]: their Default values.
EmptyPlan ==
    [response_times |-> <<>>, status_codes |-> <<>>, connect_errors |-> 0,
     timeout_errors |-> 0, other_errors |-> 0, total_elapsed |-> 0,
     total_requests |-> 0]

total_errors(p) == p.connect_errors + p.timeout_errors + p.other_errors

total_success(p) == Len(p.response_times)

total_requests(p) == p.total_requests

\* The division by the number of samples left out.
AvgUndivided(p) == SumSeq(p.response_times)

AvgOf(p) ==
    IF p.response_times = <<>> THEN 0
    ELSE SumSeq(p.response_times) \div Len(p.response_times)

\* <<avg, min, max>>
response_avg_min_max(p) ==
    <<AvgOf(p),
      IF p.response_times = <<>> THEN 0 ELSE SeqMin(p.response_times),
      IF p.response_times = <<>> THEN 0 ELSE SeqMax(p.response_times)>>

\* The number draw_terminal formats into the "Errors" row.
ErrorPercent(p) ==
    IF total_errors(p) > 0
    THEN (total_errors(p) \div total_requests(p)) * 100
    ELSE 0

\* The number draw_terminal formats into the "Success" row.
SuccessPercent(p) ==
    IF total_success(p) > 0
    THEN (total_success(p) \div total_requests(p)) * 100
    ELSE 0

\* What draw_terminal reads of the plan.
Rendered(p) == p

\* -------------------------------------------------------------- Response
IsSuccess(code) == code >= 200 /\ code < 300

Millis == 1..MaxMillis

\* What client.get(url).send() can return and the milliseconds it can take,
\* by the kind of server the url names.
RawResults ==
    [always500 |-> {[ok |-> TRUE, status |-> 500, millis |-> 1]},
     alwaysTimeout |-> {[ok |-> FALSE, cause |-> "timeout", millis |-> 1]},
     healthy |-> {[ok |-> TRUE, status |-> 200, millis |-> t] : t \in Millis},
     flaky |-> {[ok |-> TRUE, status |-> 200, millis |-> 1],
                [ok |-> TRUE, status |-> 500, millis |-> 1],
                [ok |-> FALSE, cause |-> "timeout", millis |-> 1]},
     unreachable |-> {[ok |-> FALSE, cause |-> "connect", millis |-> 1],
                      [ok |-> FALSE, cause |-> "other", millis |-> 1]}]

Targets == DOMAIN RawResults

\* The match in the job closure: the Response a raw result is sent as.
Classify(raw) ==
    IF raw.ok
    THEN IF IsSuccess(raw.status)
         THEN [kind |-> "Success", millis |-> raw.millis, code |-> raw.status]
         ELSE [kind |-> "Error", code |-> raw.status]
    ELSE IF raw.cause = "timeout" THEN [kind |-> "TimeoutError"]
         ELSE IF raw.cause = "connect" THEN [kind |-> "ConnectionError"]
         ELSE [kind |-> "OtherError"]

\* ------------------------------------------------------------------ timing
\* Duration::from_secs_f64(1.0 / rate), in nanoseconds.
sleep_ms(r) == NanosPerSec \div r

\* total_duration in pacing intervals, rounded up.
DurTicks(r, d) ==
    IF r = 0 THEN 0
    ELSE LET s == sleep_ms(r)
             q == NanosPerSec \div s
             m == NanosPerSec % s
         IN d * q + ((d * m + s - 1) \div s)

\* The main loop's 0.2 s sleep in whole pacing intervals.
RedrawTicks(r) == IF r = 0 THEN 0 ELSE RedrawNanos \div sleep_ms(r)

\* One worker thread per request of a second, however many.
PoolUncapped(r) == r

PoolSize(r) == Min(r, MAX_THREADS)

\* A job that borrows the dispatcher's Sender instead of owning a clone.
SendersOfThreadsOnly == (IF tx THEN 1 ELSE 0) + (IF tx2 THEN 1 ELSE 0)

\* The clone handed to do_requests left out of the count.
SendersButDispatcher == (IF tx THEN 1 ELSE 0) + queued + running

\* Live Senders of the channel: main's tx, the dispatcher's tx2 and the clone
\* each queued or running job owns.
Senders ==
    (IF tx THEN 1 ELSE 0) + (IF tx2 THEN 1 ELSE 0) + queued + running

\* --------------------------------------------------------- handle_results
\* The increment left out.
CountNothing(p) == p

\* plan.total_requests += 2
CountTwice(p) == [p EXCEPT !.total_requests = @ + 2]

\* plan.total_requests += 1
CountRequest(p) == [p EXCEPT !.total_requests = @ + 1]

\* plan.status_codes.insert(code, 1) for the entry's increment.
BumpStatusInserting(codes, code) ==
    IF code \in DOMAIN codes
    THEN [codes EXCEPT ![code] = 1]
    ELSE (code :> 1) @@ codes

\* let entry = plan.status_codes.entry(code).or_insert(0); *entry += 1;
BumpStatus(codes, code) ==
    IF code \in DOMAIN codes
    THEN [codes EXCEPT ![code] = @ + 1]
    ELSE (code :> 1) @@ codes

\* The Error arm without its other_errors increment.
ApplyErrorAsStatusOnly(p, m) ==
    CASE m.kind = "Success" ->
            [p EXCEPT !.response_times = Append(@, m.millis),
                      !.status_codes = BumpStatus(@, m.code)]
      [] m.kind = "Error" ->
            [p EXCEPT !.status_codes = BumpStatus(@, m.code)]
      [] m.kind = "OtherError" -> [p EXCEPT !.other_errors = @ + 1]
      [] m.kind = "ConnectionError" -> [p EXCEPT !.connect_errors = @ + 1]
      [] m.kind = "TimeoutError" -> [p EXCEPT !.timeout_errors = @ + 1]

\* The ConnectionError and TimeoutError arms with their counters exchanged.
ApplyArmsExchanged(p, m) ==
    CASE m.kind = "Success" ->
            [p EXCEPT !.response_times = Append(@, m.millis),
                      !.status_codes = BumpStatus(@, m.code)]
      [] m.kind = "Error" ->
            [p EXCEPT !.other_errors = @ + 1,
                      !.status_codes = BumpStatus(@, m.code)]
      [] m.kind = "OtherError" -> [p EXCEPT !.other_errors = @ + 1]
      [] m.kind = "ConnectionError" -> [p EXCEPT !.timeout_errors = @ + 1]
      [] m.kind = "TimeoutError" -> [p EXCEPT !.connect_errors = @ + 1]

\* response_times.insert(0, millis) for the push.
ApplyInsertingFirst(p, m) ==
    CASE m.kind = "Success" ->
            [p EXCEPT !.response_times = <<m.millis>> \o @,
                      !.status_codes = BumpStatus(@, m.code)]
      [] m.kind = "Error" ->
            [p EXCEPT !.other_errors = @ + 1,
                      !.status_codes = BumpStatus(@, m.code)]
      [] m.kind = "OtherError" -> [p EXCEPT !.other_errors = @ + 1]
      [] m.kind = "ConnectionError" -> [p EXCEPT !.connect_errors = @ + 1]
      [] m.kind = "TimeoutError" -> [p EXCEPT !.timeout_errors = @ + 1]

\* The match on msg.
Apply(p, m) ==
    CASE m.kind = "Success" ->
            [p EXCEPT !.response_times = Append(@, m.millis),
                      !.status_codes = BumpStatus(@, m.code)]
      [] m.kind = "Error" ->
            [p EXCEPT !.other_errors = @ + 1,
                      !.status_codes = BumpStatus(@, m.code)]
      [] m.kind = "OtherError" -> [p EXCEPT !.other_errors = @ + 1]
      [] m.kind = "ConnectionError" -> [p EXCEPT !.connect_errors = @ + 1]
      [] m.kind = "TimeoutError" -> [p EXCEPT !.timeout_errors = @ + 1]

\* A lock that never makes its caller wait.
MutexIgnored == TRUE

\* data.lock() returns once no other thread holds the guard.
MutexFree == lock = "free"

NoMsg == [kind |-> "none"]

\* ------------------------------------------------------------------- clock
MainTimed == mpc \in {"read", "lock", "draw", "sleep"}
DispTimed == dpc = "loop"
MainToStart == mpc \in {"validate", "spawn_results", "spawn_do", "start"}
DispToStart == dpc = "init" \/ (dpc = "off" /\ mpc # "rejected")

\* One pacing interval passes.  Each thread's elapsed time is counted up to
\* total_duration, beyond which the program tells no two values apart, and
\* each sleeping thread's remaining sleep is counted down.  A thread that
\* has read its `started` runs at most MaxSkew ahead of one that has not.
Tick ==
    /\ MainTimed \/ DispTimed
    /\ (MainTimed /\ DispToStart) => m_elapsed < MaxSkew
    /\ (DispTimed /\ MainToStart) => d_elapsed < MaxSkew
    /\ \/ MainTimed /\ m_elapsed < DurTicks(rate, duration)
       \/ DispTimed /\ d_elapsed < DurTicks(rate, duration)
       \/ m_timer > 0
       \/ d_timer > 0
    /\ m_elapsed' = IF MainTimed
                    THEN Min(m_elapsed + 1, DurTicks(rate, duration))
                    ELSE m_elapsed
    /\ d_elapsed' = IF DispTimed
                    THEN Min(d_elapsed + 1, DurTicks(rate, duration))
                    ELSE d_elapsed
    /\ m_timer' = IF m_timer > 0 THEN m_timer - 1 ELSE 0
    /\ d_timer' = IF d_timer > 0 THEN d_timer - 1 ELSE 0
    /\ UNCHANGED <<cfgvars, mainvars, dispvars, poolvars, chan, aggvars, lock,
                   plan, submitted, consumed, send_failed>>

\* -------------------------------------------------------------------- main
Init ==
    /\ rate \in 0..MaxLoad
    /\ duration \in 0..MaxLoad
    /\ rate * duration <= MaxLoad
    /\ timeout_secs \in 0..MaxTimeout
    /\ target \in Targets
    /\ mpc = "validate" /\ m_elapsed = 0 /\ m_read = 0 /\ m_timer = 0
    /\ ratio = "partial" /\ tx = FALSE
    /\ dpc = "off" /\ d_elapsed = 0 /\ d_timer = 0 /\ tx2 = FALSE
    /\ queued = 0 /\ running = 0
    /\ chan = <<>>
    /\ apc = "off" /\ msg = NoMsg
    /\ lock = "free"
    /\ plan = EmptyPlan
    /\ final_report = <<>>
    /\ submitted = 0 /\ consumed = 0
    /\ send_failed = FALSE

\* The plan passes main's two checks.
Valid == rate > 0 /\ timeout_secs > 0

\* if plan.rate <= 0 { bail } if plan.timeout_secs <= 0 { bail }
MValidate ==
    /\ mpc = "validate"
    /\ mpc' = IF Valid THEN "spawn_results" ELSE "rejected"
    /\ UNCHANGED <<cfgvars, clockvars, m_read, ratio, tx, final_report,
                   dispvars, poolvars, chan, aggvars, lock, plan, submitted,
                   consumed, send_failed>>

\* channel(); thread::spawn(handle_results)
MSpawnResults ==
    /\ mpc = "spawn_results"
    /\ tx' = TRUE
    /\ apc' = "recv"
    /\ mpc' = "spawn_do"
    /\ UNCHANGED <<cfgvars, clockvars, m_read, ratio, final_report, dispvars,
                   poolvars, chan, msg, lock, plan, submitted, consumed,
                   send_failed>>

\* tx.clone(); thread::spawn(do_requests)
MSpawnDo ==
    /\ mpc = "spawn_do"
    /\ tx2' = TRUE
    /\ dpc' = "init"
    /\ mpc' = "start"
    /\ UNCHANGED <<cfgvars, clockvars, m_read, ratio, tx, final_report,
                   poolvars, chan, aggvars, lock, plan, submitted, consumed,
                   send_failed>>

\* The terminal is prepared; let started = Instant::now();
MStart ==
    /\ mpc = "start"
    /\ m_elapsed' = 0
    /\ mpc' = "read"
    /\ UNCHANGED <<cfgvars, m_timer, d_elapsed, d_timer, m_read, ratio, tx,
                   final_report, dispvars, poolvars, chan, aggvars, lock, plan,
                   submitted, consumed, send_failed>>

\* (thread::sleep(0.2 s) returns;) let now = Instant::now();
\* let mut ratio = ..; if ratio >= 1.0 { ratio = 1.0 }
MRead ==
    /\ mpc \in {"read", "sleep"}
    /\ m_timer = 0
    /\ m_read' = m_elapsed
    /\ ratio' = IF m_elapsed >= DurTicks(rate, duration)
                THEN "full" ELSE "partial"
    /\ mpc' = "lock"
    /\ UNCHANGED <<cfgvars, clockvars, tx, final_report, dispvars, poolvars,
                   chan, aggvars, lock, plan, submitted, consumed,
                   send_failed>>

\* let mut plan = data.lock().unwrap(); plan.total_elapsed = ...
MLock ==
    /\ mpc = "lock"
    /\ MutexFree
    /\ lock' = "main"
    /\ plan' = [plan EXCEPT !.total_elapsed = m_read]
    /\ mpc' = "draw"
    /\ UNCHANGED <<cfgvars, clockvars, m_read, ratio, tx, final_report,
                   dispvars, poolvars, chan, aggvars, submitted, consumed,
                   send_failed>>

\* plan.draw_terminal(..)?; drop(plan); if ratio >= 1.0 the loop is left,
\* else thread::sleep(0.2 s) begins.
MDraw ==
    /\ mpc = "draw"
    /\ final_report' = IF ratio = "full" THEN <<Rendered(plan)>>
                       ELSE final_report
    /\ lock' = "free"
    /\ mpc' = IF ratio = "full" THEN "drop_tx" ELSE "sleep"
    /\ m_timer' = IF ratio = "full" THEN m_timer ELSE RedrawTicks(rate)
    /\ UNCHANGED <<cfgvars, m_elapsed, d_elapsed, d_timer, m_read, ratio, tx,
                   dispvars, poolvars, chan, aggvars, plan, submitted,
                   consumed, send_failed>>

\* break; without the drop: main's Sender lives until main returns.
MBreakKeepingTx ==
    /\ mpc = "drop_tx"
    /\ mpc' = "join_do"
    /\ UNCHANGED <<cfgvars, clockvars, m_read, ratio, tx, final_report,
                   dispvars, poolvars, chan, aggvars, lock, plan, submitted,
                   consumed, send_failed>>

\* drop(tx); break;
MDropTx ==
    /\ mpc = "drop_tx"
    /\ tx' = FALSE
    /\ mpc' = "join_do"
    /\ UNCHANGED <<cfgvars, clockvars, m_read, ratio, final_report, dispvars,
                   poolvars, chan, aggvars, lock, plan, submitted, consumed,
                   send_failed>>

\* handle_do.join()
MJoinDo ==
    /\ mpc = "join_do"
    /\ dpc = "done"
    /\ mpc' = "join_results"
    /\ UNCHANGED <<cfgvars, clockvars, m_read, ratio, tx, final_report,
                   dispvars, poolvars, chan, aggvars, lock, plan, submitted,
                   consumed, send_failed>>

\* handle_results.join(); terminal.set_cursor(0, 16); Ok(())
MJoinResults ==
    /\ mpc = "join_results"
    /\ apc = "done"
    /\ mpc' = "done"
    /\ UNCHANGED <<cfgvars, clockvars, m_read, ratio, tx, final_report,
                   dispvars, poolvars, chan, aggvars, lock, plan, submitted,
                   consumed, send_failed>>

\* ------------------------------------------------------------- do_requests
\* let sleep_ms = ..; let pool = ThreadPool::new(..); let started = now();
DStart ==
    /\ dpc = "init"
    /\ d_elapsed' = 0
    /\ dpc' = "loop"
    /\ UNCHANGED <<cfgvars, m_elapsed, m_timer, d_timer, mainvars, tx2,
                   poolvars, chan, aggvars, lock, plan, submitted, consumed,
                   send_failed>>

\* pool.execute(job) with the sleep after it left out.
DSubmitNoSleep ==
    /\ dpc = "loop"
    /\ d_timer = 0
    /\ d_elapsed < DurTicks(rate, duration)
    /\ d_timer' = 0
    /\ queued' = queued + 1
    /\ submitted' = submitted + 1
    /\ UNCHANGED <<cfgvars, m_elapsed, m_timer, d_elapsed, mainvars, dispvars,
                   running, chan, aggvars, lock, plan, consumed, send_failed>>

\* A loop that goes on submitting whatever the clock says.
DSubmitPastDuration ==
    /\ dpc = "loop"
    /\ d_timer = 0
    /\ d_timer' = 1
    /\ queued' = queued + 1
    /\ submitted' = submitted + 1
    /\ UNCHANGED <<cfgvars, m_elapsed, m_timer, d_elapsed, mainvars, dispvars,
                   running, chan, aggvars, lock, plan, consumed, send_failed>>

\* (The sleep returns;) the loop test holds: tx.clone(); pool.execute(job);
\* std::thread::sleep(sleep_ms) begins.
DSubmit ==
    /\ dpc = "loop"
    /\ d_timer = 0
    /\ d_elapsed < DurTicks(rate, duration)
    /\ d_timer' = 1
    /\ queued' = queued + 1
    /\ submitted' = submitted + 1
    /\ UNCHANGED <<cfgvars, m_elapsed, m_timer, d_elapsed, mainvars, dispvars,
                   running, chan, aggvars, lock, plan, consumed, send_failed>>

\* A pool whose drop discards the jobs still queued, and their Senders.
DStopDiscardingQueue ==
    /\ dpc = "loop"
    /\ d_timer = 0
    /\ d_elapsed >= DurTicks(rate, duration)
    /\ tx2' = FALSE
    /\ queued' = 0
    /\ dpc' = "done"
    /\ UNCHANGED <<cfgvars, clockvars, mainvars, running, chan, aggvars,
                   lock, plan, submitted, consumed, send_failed>>

\* (The sleep returns;) the loop test fails: drop(tx); the pool handle goes
\* out of scope, its queued jobs stay with the worker threads.
DStop ==
    /\ dpc = "loop"
    /\ d_timer = 0
    /\ d_elapsed >= DurTicks(rate, duration)
    /\ tx2' = FALSE
    /\ dpc' = "done"
    /\ UNCHANGED <<cfgvars, clockvars, mainvars, poolvars, chan, aggvars,
                   lock, plan, submitted, consumed, send_failed>>

\* ------------------------------------------------------------ pool workers
\* An idle worker thread takes the next queued job.
WorkerStart ==
    /\ queued > 0
    /\ running < PoolSize(rate)
    /\ queued' = queued - 1
    /\ running' = running + 1
    /\ UNCHANGED <<cfgvars, clockvars, mainvars, dispvars, chan, aggvars,
                   lock, plan, submitted, consumed, send_failed>>

\* The Receiver exists until handle_results returns.
ReceiverAlive == apc # "done"

\* A job that also counts its request in the plan itself.
WorkerFinishCounting ==
    /\ running > 0
    /\ \E raw \in RawResults[target] :
          IF ReceiverAlive
          THEN /\ chan' = Append(chan, Classify(raw))
               /\ UNCHANGED send_failed
          ELSE /\ send_failed' = TRUE
               /\ UNCHANGED chan
    /\ running' = running - 1
    /\ plan' = CountRequest(plan)
    /\ UNCHANGED <<cfgvars, clockvars, mainvars, dispvars, queued, aggvars,
                   lock, submitted, consumed>>

\* client.get(url).send() returns; the job sends its Response and ends,
\* dropping its Sender clone.
WorkerFinish ==
    /\ running > 0
    /\ \E raw \in RawResults[target] :
          IF ReceiverAlive
          THEN /\ chan' = Append(chan, Classify(raw))
               /\ UNCHANGED send_failed
          ELSE /\ send_failed' = TRUE
               /\ UNCHANGED chan
    /\ running' = running - 1
    /\ UNCHANGED <<cfgvars, clockvars, mainvars, dispvars, queued, aggvars,
                   lock, plan, submitted, consumed>>

\* ---------------------------------------------------------- handle_results
\* rx.iter() yields the next msg; let mut plan = data.lock().unwrap();
ARecv ==
    /\ apc = "recv"
    /\ chan # <<>>
    /\ MutexFree
    /\ msg' = Head(chan)
    /\ chan' = Tail(chan)
    /\ consumed' = consumed + 1
    /\ lock' = "agg"
    /\ apc' = "count"
    /\ UNCHANGED <<cfgvars, clockvars, mainvars, dispvars, poolvars, plan,
                   submitted, send_failed>>

\* rx.iter() ends: the buffer is empty and every Sender is dropped
AClose ==
    /\ apc = "recv"
    /\ chan = <<>>
    /\ Senders = 0
    /\ apc' = "done"
    /\ UNCHANGED <<cfgvars, clockvars, mainvars, dispvars, poolvars, chan,
                   msg, lock, plan, submitted, consumed, send_failed>>

\* The increment moved into the Success arm of the match.
ACountSuccessOnly ==
    /\ apc = "count"
    /\ plan' = IF msg.kind = "Success" THEN CountRequest(plan) ELSE plan
    /\ apc' = "apply"
    /\ UNCHANGED <<cfgvars, clockvars, mainvars, dispvars, poolvars, chan,
                   msg, lock, submitted, consumed, send_failed>>

\* plan.total_requests += 1;
ACount ==
    /\ apc = "count"
    /\ plan' = CountRequest(plan)
    /\ apc' = "apply"
    /\ UNCHANGED <<cfgvars, clockvars, mainvars, dispvars, poolvars, chan,
                   msg, lock, submitted, consumed, send_failed>>

\* match msg {..}; the guard is dropped at the end of the loop body
AApply ==
    /\ apc = "apply"
    /\ plan' = Apply(plan, msg)
    /\ lock' = "free"
    /\ msg' = NoMsg
    /\ apc' = "recv"
    /\ UNCHANGED <<cfgvars, clockvars, mainvars, dispvars, poolvars, chan,
                   submitted, consumed, send_failed>>

\* ---------------------------------------------------------- specifications
Next ==
    \/ Tick
    \/ MValidate \/ MSpawnResults \/ MSpawnDo \/ MStart \/ MRead \/ MLock
    \/ MDraw \/ MDropTx \/ MJoinDo \/ MJoinResults
    \/ DStart \/ DSubmit \/ DStop
    \/ WorkerStart \/ WorkerFinish
    \/ ARecv \/ AClose \/ ACount \/ AApply

Spec == Init /\ [][Next]_vars

Main ==
    \/ MValidate \/ MSpawnResults \/ MSpawnDo \/ MStart \/ MRead \/ MLock
    \/ MDraw \/ MDropTx \/ MJoinDo \/ MJoinResults
Dispatcher == DStart \/ DSubmit \/ DStop
Workers == WorkerStart \/ WorkerFinish
Aggregator == ARecv \/ AClose \/ ACount \/ AApply

\* What a Response carries decides no step's guard: fair runs are taken
\* against the targets with one and with two kinds of Response.
InitFair == Init /\ target \in {"alwaysTimeout", "unreachable"}

\* Every thread that can run is run, every HTTP call returns (the client's
\* timeout bounds it) and time passes.
FairSpec ==
    /\ InitFair /\ [][Next]_vars
    /\ WF_vars(Tick)
    /\ WF_vars(Main)
    /\ WF_vars(Dispatcher)
    /\ WF_vars(WorkerStart)
    /\ WF_vars(WorkerFinish)
    /\ WF_vars(Aggregator)

\* The dispatcher and its pool at a rate above MAX_THREADS, from the state in
\* which main has spawned both threads and read its `started`, while main
\* and handle_results are not scheduled: neither changes the pool.
InitPool ==
    /\ rate = MAX_THREADS + 1
    /\ duration = 1
    /\ timeout_secs = 1
    /\ target = "alwaysTimeout"
    /\ mpc = "read" /\ m_elapsed = 0 /\ m_read = 0 /\ m_timer = 0
    /\ ratio = "partial" /\ tx = TRUE
    /\ dpc = "init" /\ d_elapsed = 0 /\ d_timer = 0 /\ tx2 = TRUE
    /\ queued = 0 /\ running = 0
    /\ chan = <<>>
    /\ apc = "recv" /\ msg = NoMsg
    /\ lock = "free"
    /\ plan = EmptyPlan
    /\ final_report = <<>>
    /\ submitted = 0 /\ consumed = 0
    /\ send_failed = FALSE

NextPool ==
    \/ Tick
    \/ DStart \/ DSubmit \/ DStop
    \/ WorkerStart \/ WorkerFinish

SpecPool == InitPool /\ [][NextPool]_vars

\* The dispatcher and its pool alone, as in SpecPool, at the rates up to the
\* first whose pacing interval does not divide the second.
InitPace ==
    /\ rate \in 1..MaxPaceRate
    /\ duration \in 1..MaxLoad
    /\ timeout_secs = 1
    /\ target = "alwaysTimeout"
    /\ mpc = "read" /\ m_elapsed = 0 /\ m_read = 0 /\ m_timer = 0
    /\ ratio = "partial" /\ tx = TRUE
    /\ dpc = "init" /\ d_elapsed = 0 /\ d_timer = 0 /\ tx2 = TRUE
    /\ queued = 0 /\ running = 0
    /\ chan = <<>>
    /\ apc = "recv" /\ msg = NoMsg
    /\ lock = "free"
    /\ plan = EmptyPlan
    /\ final_report = <<>>
    /\ submitted = 0 /\ consumed = 0
    /\ send_failed = FALSE

SpecPace == InitPace /\ [][NextPool]_vars

\* ------------------------------------------------------------------ claims
Drained == dpc = "done" /\ apc = "done"

\* C1: at every moment total_success + total_errors <= total_requests, and
\* once the dispatcher has stopped and the aggregator has drained the
\* channel the two sides are equal.
C1_CountsWithinTotal ==
    /\ total_success(plan) + total_errors(plan) <= plan.total_requests
    /\ Drained =>
          total_success(plan) + total_errors(plan) = plan.total_requests

C1_Witness ==
    /\ Drained
    /\ total_success(plan) > 0
    /\ total_errors(plan) > 0

\* Every submitted request is in exactly one place: queued, running, in the
\* channel or consumed; and no send has failed.
Conserved ==
    /\ submitted = queued + running + Len(chan) + consumed
    /\ ~send_failed

AllConsumed ==
    /\ consumed = submitted
    /\ queued = 0 /\ running = 0 /\ chan = <<>>

\* C2: every request submitted to the pool ends as exactly one Response
\* consumed by the aggregator, those queued or in flight when the duration
\* elapsed included: none is lost or doubled, and in the end all are
\* consumed.
C2_EveryRequestConsumedOnce == []Conserved /\ <>[]AllConsumed

\* Requests were still outstanding at main's last draw, after the duration
\* had elapsed, and all have been consumed since.
C2_Witness ==
    /\ mpc = "done"
    /\ AllConsumed
    /\ final_report # <<>>
    /\ final_report[1].total_requests < consumed

\* C3: handle_results returns only after the dispatcher has submitted its
\* last request and every Sender is gone, having consumed as many Responses
\* as requests were submitted.
C3_CloseAfterLastSubmit ==
    apc = "done" =>
        /\ dpc = "done"
        /\ ~tx /\ ~tx2
        /\ AllConsumed

C3_Witness == apc = "done" /\ submitted >= 2

\* C4: under fair scheduling a run ends: a valid plan's run with the
\* dispatcher stopped, every Sender dropped, the aggregator's loop ended and
\* both joins returned; an invalid plan's with the rejection.
C4_RunTerminates ==
    <>[](IF Valid
         THEN /\ mpc = "done" /\ dpc = "done" /\ apc = "done"
              /\ ~tx /\ ~tx2 /\ queued = 0 /\ running = 0
         ELSE mpc = "rejected")

C4_Witness == mpc = "done" /\ submitted >= 2 /\ consumed = submitted

\* C5: the final report is rendered after both joins, from the fully
\* drained plan: when main is done, what was rendered last is the plan.
C5_FinalReportIsDrainedPlan ==
    mpc = "done" => final_report = <<Rendered(plan)>>

\* C6: the display loop never reads a plan to which only part of one
\* Response's updates has been applied: whenever main holds the lock the
\* aggregator is between Responses and the plan's counts add up.
C6_DrawSeesWholeOutcomes ==
    lock = "main" =>
        /\ apc \notin {"count", "apply"}
        /\ plan.total_requests = total_success(plan) + total_errors(plan)
        /\ plan.total_requests = consumed
        /\ SumMap(plan.status_codes) >= total_success(plan)
        /\ SumMap(plan.status_codes)
              <= total_success(plan) + plan.other_errors

C6_Witness ==
    /\ lock = "main"
    /\ mpc = "draw"
    /\ plan.total_requests > 0
    /\ chan # <<>>

\* C7: the requests executing at once are never more than min(rate,
\* MAX_THREADS); the other submitted requests wait in the pool's queue.
C7_RunningWithinPool ==
    /\ running <= rate
    /\ running <= MAX_THREADS
    /\ queued > 0 /\ ~ENABLED WorkerStart =>
          running = IF rate < MAX_THREADS THEN rate ELSE MAX_THREADS

C7_Witness == rate > MAX_THREADS /\ running = MAX_THREADS /\ queued > 0

\* C8: a plan whose rate, duration or timeout is zero is rejected before
\* the aggregator or the dispatcher is started and before any request.
C8_ZeroParameterRejected ==
    (rate = 0 \/ duration = 0 \/ timeout_secs = 0) =>
        /\ mpc \in {"validate", "rejected"}
        /\ apc = "off" /\ dpc = "off"
        /\ submitted = 0

StatusCount(codes, code) == IF code \in DOMAIN codes THEN codes[code] ELSE 0

ErrorRecorded ==
    (apc = "apply" /\ msg.kind = "Error" /\ apc' = "recv") =>
        /\ StatusCount(plan'.status_codes, msg.code)
              = StatusCount(plan.status_codes, msg.code) + 1
        /\ SumMap(plan'.status_codes) = SumMap(plan.status_codes) + 1
        /\ plan'.other_errors = plan.other_errors + 1
        /\ plan'.response_times = plan.response_times

All500Totals ==
    (target = "always500" /\ Drained) =>
        /\ plan.status_codes
              = IF consumed = 0 THEN <<>> ELSE (500 :> consumed)
        /\ plan.other_errors = consumed
        /\ plan.response_times = <<>>
        /\ SuccessPercent(plan) = 0

\* C9: a non-2xx response adds one to status_codes[status] and to
\* other_errors and nothing to response_times; after a run of N responses,
\* all HTTP 500, status_codes = {500: N}, other_errors = N, response_times
\* is empty and the success percentage is 0.
C9_HttpErrorRecorded == [][ErrorRecorded]_vars /\ []All500Totals

C9_Witness == target = "always500" /\ Drained /\ consumed >= 2

\* C10: response_avg_min_max returns min <= avg <= max, avg the integer
\* quotient of the sum by the length, when response_times is non-empty and
\* (0, 0, 0) when it is empty.
C10_AvgBetweenMinAndMax ==
    LET r == response_avg_min_max(plan)
        t == plan.response_times
    IN IF t = <<>>
       THEN r = <<0, 0, 0>>
       ELSE /\ r[2] <= r[1] /\ r[1] <= r[3]
            /\ r[1] * Len(t) <= SumSeq(t)
            /\ SumSeq(t) < (r[1] + 1) * Len(t)
            /\ \A i \in DOMAIN t : r[2] <= t[i] /\ t[i] <= r[3]

C10_Witness ==
    /\ Len(plan.response_times) >= 2
    /\ response_avg_min_max(plan)[2] < response_avg_min_max(plan)[3]

\* C11: whenever total_requests > 0 the report's success percentage is
\* len(response_times) / total_requests x 100 and its error percentage is
\* total_errors / total_requests x 100 (to the whole percent below): 1 success
\* and 1 error out of 2 requests report 50 and 50.
C11_PercentagesAreRatios ==
    (lock = "main" /\ plan.total_requests > 0) =>
        /\ SuccessPercent(plan)
              = (total_success(plan) * 100) \div plan.total_requests
        /\ ErrorPercent(plan)
              = (total_errors(plan) * 100) \div plan.total_requests

\* C12: the dispatcher submits at most rate x duration + 1 requests in a run
\* (at most 2 for rate 1, duration 1), and none after it has observed
\* elapsed >= duration and left its loop.
C12_SubmissionsBounded ==
    /\ [](submitted <= rate * duration + 1)
    /\ []((rate = 1 /\ duration = 1) => submitted <= 2)
    /\ [][dpc = "done" => submitted' = submitted]_vars

C12_Witness ==
    /\ dpc = "done"
    /\ submitted = rate * duration + 1

\* C13 as claimed: the dispatcher sleeps before it submits, so no request is
\* submitted before one pacing interval has passed since the dispatcher's
\* `started`.
C13_SleepBeforeSubmit == submitted > 0 => d_elapsed >= 1

\* C13 as amended: in each iteration the dispatcher checks elapsed against
\* the duration, submits one request and only then sleeps one pacing
\* interval: the step that submits is the one that starts the sleep, it is
\* taken with no sleep pending, and the k-th submission is preceded by k - 1
\* whole intervals, the first by none.
C13_SubmitThenSleep ==
    /\ [][submitted' # submitted =>
             /\ submitted' = submitted + 1
             /\ d_timer = 0 /\ d_timer' = 1
             /\ d_elapsed < DurTicks(rate, duration)]_vars
    /\ [](submitted <= d_elapsed + 1)
    /\ []((dpc = "loop" /\ d_timer = 0) => submitted <= d_elapsed)

C13_Witness ==
    /\ submitted = 2
    /\ d_elapsed = 1
    /\ d_timer = 1

\* C14 as claimed: total_requests is incremented at each dispatch, so in
\* every reachable state it equals the number of requests submitted so far.
C14_TotalIsSubmitted == plan.total_requests = submitted

\* C14 as amended: total_requests is incremented once for each Response
\* handle_results consumes: in every reachable state it equals the number of
\* Responses counted so far, is never more than the number of requests
\* submitted, and equals it once the run is drained.
C14_TotalIsConsumed ==
    /\ plan.total_requests = consumed - (IF apc = "count" THEN 1 ELSE 0)
    /\ plan.total_requests <= submitted
    /\ Drained => plan.total_requests = submitted

\* A live report drawn while a request is in flight does not count it.
C14_Witness ==
    /\ lock = "main" /\ mpc = "draw"
    /\ plan.total_requests = 1
    /\ submitted = 2
    /\ running = 1

\* The counter a transport failure of each kind is recorded in.
FailureField(kind) ==
    CASE kind = "TimeoutError" -> "timeout_errors"
      [] kind = "ConnectionError" -> "connect_errors"
      [] kind = "OtherError" -> "other_errors"

FailureRecorded ==
    (apc = "apply" /\ apc' = "recv"
       /\ msg.kind \in {"TimeoutError", "ConnectionError", "OtherError"}) =>
        /\ plan'[FailureField(msg.kind)] = plan[FailureField(msg.kind)] + 1
        /\ \A f \in DOMAIN plan \ {FailureField(msg.kind)} :
              plan'[f] = plan[f]

AllTimeoutTotals ==
    (target = "alwaysTimeout" /\ Drained) =>
        /\ plan.connect_errors = 0
        /\ plan.other_errors = 0
        /\ plan.status_codes = <<>>
        /\ plan.response_times = <<>>
        /\ plan.timeout_errors = consumed

\* C15: the match on a Timeout adds one to timeout_errors and leaves every
\* other field as it was, on a ConnectFailure likewise connect_errors and an
\* OtherFailure other_errors; after a run whose Responses are all Timeout,
\* connect_errors and other_errors are 0, status_codes is empty and
\* timeout_errors is the number of Responses.
C15_FailureTouchesOwnCounter == [][FailureRecorded]_vars /\ []AllTimeoutTotals

C15_Witness ==
    /\ target = "alwaysTimeout"
    /\ Drained
    /\ plan.timeout_errors = 2

IsPrefix(s, t) == Len(s) <= Len(t) /\ SubSeq(t, 1, Len(s)) = s

Grows ==
    /\ plan'.connect_errors >= plan.connect_errors
    /\ plan'.timeout_errors >= plan.timeout_errors
    /\ plan'.other_errors >= plan.other_errors
    /\ plan'.total_requests >= plan.total_requests
    /\ \A code \in DOMAIN plan.status_codes :
          /\ code \in DOMAIN plan'.status_codes
          /\ plan'.status_codes[code] >= plan.status_codes[code]
    /\ IsPrefix(plan.response_times, plan'.response_times)

\* C16: in every step of a run connect_errors, timeout_errors, other_errors,
\* total_requests and each status_codes count stay or grow, and
\* response_times stays or is extended at its end.
C16_StatsOnlyGrow == [][Grows]_vars

C16_Witness ==
    /\ plan.response_times = <<1, 2>>
    /\ plan.status_codes = (200 :> 2)

\* C17 as claimed: the steps of the dispatcher, of the request workers and
\* of main's display loop leave every field of the plan's statistics, the
\* elapsed time included, unchanged.
C17_OnlyAggregatorWrites ==
    [][(Main \/ Dispatcher \/ Workers) => plan' = plan]_vars

\* C17 as amended: the steps of the dispatcher and of the request workers
\* leave every field unchanged; a step of main's display loop changes at
\* most total_elapsed, and that while it takes the lock; a step of
\* handle_results leaves total_elapsed unchanged.
C17_MainWritesElapsedOnly ==
    [][/\ (Dispatcher \/ Workers) => plan' = plan
       /\ Main => /\ plan' = [plan EXCEPT !.total_elapsed = plan'.total_elapsed]
                  /\ plan' # plan => (lock = "free" /\ lock' = "main")
       /\ Aggregator => plan'.total_elapsed = plan.total_elapsed]_vars

C17_Witness ==
    /\ lock = "main" /\ mpc = "draw"
    /\ plan.total_elapsed >= 1
    /\ plan.total_requests >= 1

\* C18: a worker's send of its Response never fails: while any job is
\* queued or running the Receiver is alive, because handle_results returns
\* only after every Sender, each job's clone included, has been dropped.
C18_SendNeverFails ==
    /\ ~send_failed
    /\ (queued + running > 0) => ReceiverAlive
    /\ ~ReceiverAlive => Senders = 0

\* A Response sent after main and do_requests have dropped their Senders.
C18_Witness ==
    /\ ~tx /\ ~tx2
    /\ dpc = "done"
    /\ chan # <<>>
    /\ running > 0
    /\ ReceiverAlive

\* C19: draw_terminal never divides by a total_requests of 0: in every plan
\* main holds the lock on, the first drawn included, total_errors > 0 or
\* total_success > 0 implies total_requests > 0.
C19_NoDivisionByZero ==
    lock = "main" =>
        /\ total_errors(plan) > 0 => total_requests(plan) > 0
        /\ total_success(plan) > 0 => total_requests(plan) > 0
        /\ total_requests(plan) = 0 =>
              (SuccessPercent(plan) = 0 /\ ErrorPercent(plan) = 0)

\* Both divisions are evaluated in one rendering.
C19_Witness ==
    /\ lock = "main" /\ mpc = "draw"
    /\ total_errors(plan) > 0
    /\ total_success(plan) > 0

StatusSumStep ==
    SumMap(plan'.status_codes) =
        SumMap(plan.status_codes)
          + (IF apc = "apply" /\ apc' = "recv" /\ msg.kind \in {"Success", "Error"}
             THEN 1 ELSE 0)

StatusSumBounds ==
    /\ total_success(plan) <= SumMap(plan.status_codes)
    /\ SumMap(plan.status_codes) <= total_success(plan) + plan.other_errors
    /\ SumMap(plan.status_codes) + plan.connect_errors + plan.timeout_errors
          <= plan.total_requests
    /\ \A code \in DOMAIN plan.status_codes : plan.status_codes[code] >= 1

\* C20: the sum of the status_codes counts is the number of Responses
\* consumed that carried an HTTP status (it grows by one with each Success
\* or Error applied and with nothing else), so it lies between
\* len(response_times) and len(response_times) + other_errors, and with
\* connect_errors and timeout_errors it is at most total_requests.
C20_StatusSumCountsHttpResponses == [][StatusSumStep]_vars /\ []StatusSumBounds

C20_Witness ==
    /\ plan.status_codes = (200 :> 1) @@ (500 :> 1)
    /\ total_success(plan) = 1
    /\ plan.other_errors = 1

====
